---- MODULE Spec2Model ----
(***************************************************************************)
(* A model of the string-to-arb extension: the placeholder converter and   *)
(* key suggester of utils.ts, the resource store and conflict resolver of  *)
(* arb.ts, the translation fan-out of translation.ts and runExtraction of  *)
(* extension.ts.                                                           *)
(*                                                                         *)
(* A JavaScript string is a sequence of one-character strings.  A resource *)
(* document (a parsed JSON object) is the sequence of its own properties   *)
(* in JavaScript's property order, each a record [k |-> key, v |-> value]. *)
(***************************************************************************)
EXTENDS Integers, Sequences, FiniteSets, TLC

(***************************************************************************)
(* Characters and character classes of the regular expressions.            *)
(***************************************************************************)
LowerSeq == << "a", "b", "c", "d", "e", "f", "g", "h", "i", "j", "k", "l", "m",
               "n", "o", "p", "q", "r", "s", "t", "u", "v", "w", "x", "y", "z" >>

UpperSeq == << "A", "B", "C", "D", "E", "F", "G", "H", "I", "J", "K", "L", "M",
               "N", "O", "P", "Q", "R", "S", "T", "U", "V", "W", "X", "Y", "Z" >>

Range(s) == { s[i] : i \in 1..Len(s) }

LowerLetters == Range(LowerSeq)

UpperLetters == Range(UpperSeq)

Digits == { "0", "1", "2", "3", "4", "5", "6", "7", "8", "9" }

\* \w of a JavaScript regular expression
WordChars == LowerLetters \cup UpperLetters \cup Digits \cup { "_" }

\* the line terminators, which `.` does not match
LineTerminators == { "\n", "\r" }

\* \s of a JavaScript regular expression, and what trim() removes
Whitespace == { " ", "\t", "\f" } \cup LineTerminators

\* the operator characters of /\s*[\+\-\*\/]\s*.+$/
MathOps == { "+", "-", "*", "/" }

ToLowerChar(c) ==
  IF c \in UpperLetters
    THEN LowerSeq[CHOOSE i \in 1..Len(UpperSeq) : UpperSeq[i] = c]
    ELSE c

ToUpperChar(c) ==
  IF c \in LowerLetters
    THEN UpperSeq[CHOOSE i \in 1..Len(LowerSeq) : LowerSeq[i] = c]
    ELSE c

(***************************************************************************)
(* String primitives.                                                      *)
(***************************************************************************)
\* s.substring(from - 1, to) with 1-based inclusive bounds
Sub(s, from, to) == IF from > to THEN << >> ELSE SubSeq(s, from, to)

\* needle occurs in hay at index i
OccursAt(hay, needle, i) ==
  /\ i >= 1
  /\ i + Len(needle) - 1 <= Len(hay)
  /\ \A j \in 1..Len(needle) : hay[i + j - 1] = needle[j]

\* 1-based index of the first occurrence of needle in hay, 0 when there is none
IndexOf(hay, needle) ==
  IF \E i \in 1..(Len(hay) + 1) : OccursAt(hay, needle, i)
    THEN CHOOSE i \in 1..(Len(hay) + 1) :
           /\ OccursAt(hay, needle, i)
           /\ \A j \in 1..(i - 1) : ~OccursAt(hay, needle, j)
    ELSE 0

\* String.prototype.includes
Includes(hay, needle) == IndexOf(hay, needle) # 0

\* Array.prototype.includes
ArrIncludes(arr, x) == \E i \in 1..Len(arr) : arr[i] = x

\* String.prototype.trim
Trim(s) ==
  IF \A i \in 1..Len(s) : s[i] \in Whitespace
    THEN << >>
    ELSE LET first == CHOOSE i \in 1..Len(s) :
                        /\ s[i] \notin Whitespace
                        /\ \A j \in 1..(i - 1) : s[j] \in Whitespace
             last  == CHOOSE i \in 1..Len(s) :
                        /\ s[i] \notin Whitespace
                        /\ \A j \in (i + 1)..Len(s) : s[j] \in Whitespace
         IN  Sub(s, first, last)

\* The replacement string of String.prototype.replace is a template: `$$`
\* inserts one `$`.  (The other patterns, $&, $`, $' and $<name>, need a
\* character after the `$` that no text of this model holds, and $n is
\* literal because the search pattern has no capture group.)
RECURSIVE ExpandReplacement(_)
ExpandReplacement(t) ==
  IF t = << >> THEN << >>
  ELSE IF Len(t) >= 2 /\ t[1] = "$" /\ t[2] = "$"
    THEN << "$" >> \o ExpandReplacement(Sub(t, 3, Len(t)))
    ELSE << t[1] >> \o ExpandReplacement(Tail(t))

\* hay.replace(new RegExp(escaped(needle), ''), template): the first literal
\* occurrence of needle is replaced, nothing when there is none
ReplaceFirst(hay, needle, template) ==
  LET i == IndexOf(hay, needle)
  IN  IF i = 0 THEN hay
      ELSE Sub(hay, 1, i - 1) \o ExpandReplacement(template)
             \o Sub(hay, i + Len(needle), Len(hay))

(***************************************************************************)
(* utils.ts: detectAndConvertPlaceholders.                                 *)
(***************************************************************************)
\* index of the first `}` of text at or after from, 0 when there is none
FirstClose(text, from) ==
  IF \E j \in from..Len(text) : text[j] = "}"
    THEN CHOOSE j \in from..Len(text) :
           /\ text[j] = "}"
           /\ \A k \in from..(j - 1) : text[k] # "}"
    ELSE 0

\* /\${([^}]+)}/ matches at index i: `${`, at least one character that is not
\* `}`, then `}`
BracedAt(text, i) ==
  /\ i + 1 <= Len(text)
  /\ text[i] = "$"
  /\ text[i + 1] = "{"
  /\ FirstClose(text, i + 2) > i + 2

\* /\$(\w+)/ matches at index i
BareAt(text, i) ==
  /\ i + 1 <= Len(text)
  /\ text[i] = "$"
  /\ text[i + 1] \in WordChars

\* last index of the greedy run of word characters that starts at index i
WordRunEnd(text, i) ==
  CHOOSE j \in i..Len(text) :
    /\ \A k \in i..j : text[k] \in WordChars
    /\ (j = Len(text) \/ text[j + 1] \notin WordChars)

NoMatch == [found |-> FALSE, index |-> 0, end |-> 0, capture |-> << >>]

\* dartPlaceholderRegex.exec(text) with lastIndex = from - 1: the leftmost
\* match at or after from, the braced alternative tried first
dartPlaceholderRegex(text, from) ==
  IF \E i \in from..Len(text) : BracedAt(text, i) \/ BareAt(text, i)
    THEN LET i == CHOOSE i \in from..Len(text) :
                    /\ BracedAt(text, i) \/ BareAt(text, i)
                    /\ \A k \in from..(i - 1) : ~(BracedAt(text, k) \/ BareAt(text, k))
         IN  IF BracedAt(text, i)
               THEN [found |-> TRUE, index |-> i, end |-> FirstClose(text, i + 2),
                     capture |-> Sub(text, i + 2, FirstClose(text, i + 2) - 1)]
               ELSE [found |-> TRUE, index |-> i, end |-> WordRunEnd(text, i + 1),
                     capture |-> Sub(text, i + 1, WordRunEnd(text, i + 1))]
    ELSE NoMatch

\* /\{([^}]+)\}/ matches at index i
ArbAt(text, i) ==
  /\ i <= Len(text)
  /\ text[i] = "{"
  /\ FirstClose(text, i + 1) > i + 1

\* arbPlaceholderRegex.exec(text) with lastIndex = from - 1
arbPlaceholderRegex(text, from) ==
  IF \E i \in from..Len(text) : ArbAt(text, i)
    THEN LET i == CHOOSE i \in from..Len(text) :
                    /\ ArbAt(text, i)
                    /\ \A k \in from..(i - 1) : ~ArbAt(text, k)
         IN  [found |-> TRUE, index |-> i, end |-> FirstClose(text, i + 1),
              capture |-> Sub(text, i + 1, FirstClose(text, i + 1) - 1)]
    ELSE NoMatch

\* /\s*[\+\-\*\/]\s*.+$/ matches s from index p: whitespace up to an operator
\* at q, then whitespace, then at least one character up to the end of the
\* string, none of them a line terminator
MathSuffixAt(s, p) ==
  \E q \in p..Len(s) :
    /\ \A k \in p..(q - 1) : s[k] \in Whitespace
    /\ s[q] \in MathOps
    /\ \E d \in (q + 1)..Len(s) :
         /\ \A k \in (q + 1)..(d - 1) : s[k] \in Whitespace
         /\ \A k \in d..Len(s) : s[k] \notin LineTerminators

\* .replace(/\s*[\+\-\*\/]\s*.+$/, ''): the leftmost match is removed
StripMathSuffix(s) ==
  IF \E p \in 1..Len(s) : MathSuffixAt(s, p)
    THEN LET p == CHOOSE p \in 1..Len(s) :
                    /\ MathSuffixAt(s, p)
                    /\ \A k \in 1..(p - 1) : ~MathSuffixAt(s, k)
         IN  Sub(s, 1, p - 1)
    ELSE s

\* .replace(/!$/, '')
StripNullAssertion(s) ==
  IF Len(s) >= 1 /\ s[Len(s)] = "!" THEN Sub(s, 1, Len(s) - 1) ELSE s

\* parts[0] of s.split('.')
FirstDotPart(s) ==
  IF \E i \in 1..Len(s) : s[i] = "."
    THEN LET i == CHOOSE i \in 1..Len(s) :
                    /\ s[i] = "."
                    /\ \A k \in 1..(i - 1) : s[k] # "."
         IN  Sub(s, 1, i - 1)
    ELSE s

\* parts[parts.length - 1] of s.split('.')
LastDotPart(s) ==
  IF \E i \in 1..Len(s) : s[i] = "."
    THEN LET i == CHOOSE i \in 1..Len(s) :
                    /\ s[i] = "."
                    /\ \A k \in (i + 1)..Len(s) : s[k] # "."
         IN  Sub(s, i + 1, Len(s))
    ELSE s

FallbackName == << "v", "a", "r", "i", "a", "b", "l", "e" >>

\* the placeholder name of an expression (simpleName)
simpleName(fullPlaceholder) ==
  LET cleanedPlaceholder == Trim(StripNullAssertion(StripMathSuffix(fullPlaceholder)))
      last == LastDotPart(cleanedPlaceholder)
  IN  IF last = << >> THEN FallbackName ELSE last

\* `{${simpleName}}`
Braced(name) == << "{" >> \o name \o << "}" >>

\* RecordPlaceholder with the name skipped when an equal name is recorded already
RecordPlaceholderUniqueNames(info, fullPlaceholder) ==
  IF ~ArrIncludes(info.originalPlaceholders, fullPlaceholder)
    THEN [info EXCEPT !.originalPlaceholders = Append(@, fullPlaceholder),
                      !.arbPlaceholders =
                        IF ArrIncludes(@, simpleName(fullPlaceholder)) THEN @
                        ELSE Append(@, simpleName(fullPlaceholder))]
    ELSE info

\* utils.ts 27-30: an expression is recorded, with its name, unless the same
\* expression was recorded before
RecordPlaceholder(info, fullPlaceholder) ==
  IF ~ArrIncludes(info.originalPlaceholders, fullPlaceholder)
    THEN [info EXCEPT !.originalPlaceholders = Append(@, fullPlaceholder),
                      !.arbPlaceholders = Append(@, simpleName(fullPlaceholder))]
    ELSE info

\* utils.ts 33-36: the first occurrence of the matched text is replaced by
\* {name}, unless arbText already holds {name}
ReplaceOccurrence(arbText, matched, name) ==
  IF ~Includes(arbText, Braced(name))
    THEN ReplaceFirst(arbText, matched, Braced(name))
    ELSE arbText

\* utils.ts 13-37: the loop over the interpolations of the input text
RECURSIVE ConvertDartPlaceholders(_, _, _)
ConvertDartPlaceholders(text, from, info) ==
  LET dartMatch == dartPlaceholderRegex(text, from)
  IN  IF ~dartMatch.found THEN info
      ELSE LET recorded == RecordPlaceholder(info, dartMatch.capture)
               matched  == Sub(text, dartMatch.index, dartMatch.end)
           IN  ConvertDartPlaceholders(text, dartMatch.end + 1,
                 [recorded EXCEPT !.arbText =
                    ReplaceOccurrence(@, matched, simpleName(dartMatch.capture))])

\* utils.ts 43-48: a {name} of the converted text that is not recorded yet is
\* recorded as its own original
RecordArbPlaceholder(info, placeholderName) ==
  IF ~ArrIncludes(info.arbPlaceholders, placeholderName)
    THEN [info EXCEPT !.originalPlaceholders = Append(@, placeholderName),
                      !.arbPlaceholders = Append(@, placeholderName)]
    ELSE info

\* utils.ts 40-49: the loop over the {name} occurrences of arbText
RECURSIVE CollectArbPlaceholders(_, _)
CollectArbPlaceholders(from, info) ==
  LET arbMatch == arbPlaceholderRegex(info.arbText, from)
  IN  IF ~arbMatch.found THEN info
      ELSE CollectArbPlaceholders(arbMatch.end + 1,
             RecordArbPlaceholder(info, arbMatch.capture))

detectAndConvertPlaceholders(text) ==
  CollectArbPlaceholders(1,
    ConvertDartPlaceholders(text, 1,
      [originalPlaceholders |-> << >>, arbPlaceholders |-> << >>, arbText |-> text]))

(***************************************************************************)
(* utils.ts: generateSuggestedKey.                                         *)
(***************************************************************************)
\* the text with its placeholders left in
KeepArbPlaceholders(text) == text

\* text.replace(/\{[^}]+\}/g, '')
RECURSIVE RemoveArbPlaceholders(_)
RemoveArbPlaceholders(text) ==
  LET m == arbPlaceholderRegex(text, 1)
  IN  IF ~m.found THEN text
      ELSE Sub(text, 1, m.index - 1) \o RemoveArbPlaceholders(Sub(text, m.end + 1, Len(text)))

\* .replace(/[^a-zA-Z0-9\s]/g, '')
KeepLettersDigitsSpaces(s) ==
  SelectSeq(s, LAMBDA c : c \in LowerLetters \cup UpperLetters \cup Digits \cup Whitespace)

\* .toLowerCase()
ToLowerCase(s) == [i \in 1..Len(s) |-> ToLowerChar(s[i])]

\* .split(/\s+/).filter(Boolean): the maximal runs of non-whitespace
RECURSIVE SplitWords(_)
SplitWords(s) ==
  IF s = << >> THEN << >>
  ELSE IF s[1] \in Whitespace THEN SplitWords(Tail(s))
  ELSE LET e == CHOOSE j \in 1..Len(s) :
                  /\ \A k \in 1..j : s[k] \notin Whitespace
                  /\ (j = Len(s) \/ s[j + 1] \in Whitespace)
       IN  << Sub(s, 1, e) >> \o SplitWords(Sub(s, e + 1, Len(s)))

\* word.charAt(0).toUpperCase() + word.slice(1)
Capitalize(word) == << ToUpperChar(word[1]) >> \o Tail(word)

\* .map((word, index) => index === 0 ? word : capitalized).join('')
RECURSIVE CamelJoin(_, _)
CamelJoin(words, index) ==
  IF index > Len(words) THEN << >>
  ELSE (IF index = 1 THEN words[index] ELSE Capitalize(words[index]))
         \o CamelJoin(words, index + 1)

\* key.substring(0, 40)
MaxKeyLength == 40

FallbackKey == << "m", "y", "S", "t", "r", "i", "n", "g" >>

generateSuggestedKey(text) ==
  LET cleanText == RemoveArbPlaceholders(text)
      words == SplitWords(ToLowerCase(Trim(KeepLettersDigitsSpaces(cleanText))))
      joined == CamelJoin(words, 1)
      key == Sub(joined, 1, IF Len(joined) < MaxKeyLength THEN Len(joined) ELSE MaxKeyLength)
  IN  IF key = << >> THEN FallbackKey ELSE key

(***************************************************************************)
(* The texts the converter and the key suggester are applied to: the       *)
(* concatenations of at most MaxParts fragments, and the texts the         *)
(* documentation gives as examples.                                        *)
(***************************************************************************)
MaxParts == 3

Fragments ==
  { << "$" >>, << "{" >>, << "}" >>, << "a" >>, << "." >>, << " " >>, << "5" >>,
    << "A" >>, << "+" >>, << "$", "a" >>, << "$", "{", "a", "!", "}" >> }

RECURSIVE Concat(_)
Concat(parts) == IF parts = << >> THEN << >> ELSE Head(parts) \o Concat(Tail(parts))

FragmentTexts ==
  { Concat(parts) : parts \in UNION { [1..n -> Fragments] : n \in 0..MaxParts } }

\* 'Order not found ${data.order.code}' and 'Hello {name}'
ExampleTexts ==
  { << "O", "r", "d", "e", "r", " ", "n", "o", "t", " ", "f", "o", "u", "n", "d", " ",
       "$", "{", "d", "a", "t", "a", ".", "o", "r", "d", "e", "r", ".", "c", "o", "d", "e", "}" >>,
    << "H", "e", "l", "l", "o", " ", "{", "n", "a", "m", "e", "}" >> }

Texts == FragmentTexts \cup ExampleTexts

NoInfo == [originalPlaceholders |-> << >>, arbPlaceholders |-> << >>, arbText |-> << >>]

(***************************************************************************)
(* Resource documents: JavaScript objects parsed from and written to the   *)
(* .arb files.                                                             *)
(***************************************************************************)
\* a string value
StrVal(s) == [t |-> "string", s |-> s, names |-> << >>]

\* the metadata object { "placeholders": { name: { "type": "String" }, ... } },
\* by the names of its placeholders in property order
MetaVal(names) == [t |-> "object", s |-> << >>, names |-> names]

\* a method inherited from Object.prototype
FunctionVal == [t |-> "function", s |-> << >>, names |-> << >>]

UndefinedVal == [t |-> "undefined", s |-> << >>, names |-> << >>]

\* an optional value: undefined, or the value v
Undefined == [def |-> FALSE, v |-> << >>]

Some(x) == [def |-> TRUE, v |-> x]

\* an optional document value (endOfFileMarkerValue)
NoMarker == [def |-> FALSE, v |-> UndefinedVal]

\* the names every object inherits from Object.prototype; one stands for all
ObjectPrototypeKeys == { << "c", "o", "n", "s", "t", "r", "u", "c", "t", "o", "r" >> }

\* arbContent.hasOwnProperty(k)
HasOwnProperty(doc, k) == \E i \in 1..Len(doc) : doc[i].k = k

\* arbContent[k]: the own property, else the inherited one, else undefined
Get(doc, k) ==
  IF HasOwnProperty(doc, k)
    THEN doc[CHOOSE i \in 1..Len(doc) : doc[i].k = k].v
    ELSE IF k \in ObjectPrototypeKeys THEN FunctionVal ELSE UndefinedVal

\* the truthiness of a value: undefined and the empty string are falsy
Truthy(v) == v.t # "undefined" /\ ~(v.t = "string" /\ v.s = << >>)

\* the decimal digits
DigitSeq == << "0", "1", "2", "3", "4", "5", "6", "7", "8", "9" >>

\* the number a string of digits writes
NumericValue(k) ==
  LET F[i \in 0..Len(k)] ==
        IF i = 0 THEN 0
        ELSE F[i - 1] * 10 + ((CHOOSE d \in 1..10 : DigitSeq[d] = k[i]) - 1)
  IN  F[Len(k)]

\* the longest run of digits that writes an array index whatever its digits
\* (array indices are the integers below 2^32 - 1, which has ten digits)
MaxIndexDigits == 9

\* an integer-like key (an array index): the canonical decimal string of an
\* integer, here of at most MaxIndexDigits digits
IsArrayIndex(k) ==
  /\ Len(k) \in 1..MaxIndexDigits
  /\ \A i \in 1..Len(k) : k[i] \in Digits
  /\ Len(k) > 1 => k[1] # "0"

\* a new own property in JavaScript's property order: an integer-like key
\* goes among the integer-like keys, which come first in ascending order; any
\* other key goes last
InsertProperty(doc, k, v) ==
  IF IsArrayIndex(k)
    THEN LET before == Cardinality({ i \in 1..Len(doc) :
                         IsArrayIndex(doc[i].k) /\ NumericValue(doc[i].k) < NumericValue(k) })
         IN  SubSeq(doc, 1, before) \o << [k |-> k, v |-> v] >>
               \o SubSeq(doc, before + 1, Len(doc))
    ELSE Append(doc, [k |-> k, v |-> v])

\* arbContent[k] = v: an own property keeps its place, a new one goes where
\* JavaScript's property order puts it
Set(doc, k, v) ==
  IF HasOwnProperty(doc, k)
    THEN [i \in 1..Len(doc) |-> IF doc[i].k = k THEN [k |-> k, v |-> v] ELSE doc[i]]
    ELSE InsertProperty(doc, k, v)

\* delete arbContent[k]
Delete(doc, k) == SelectSeq(doc, LAMBDA e : e.k # k)

\* Object.keys(doc)
Keys(doc) == [i \in 1..Len(doc) |-> doc[i].k]

\* the keys of arbPlaceholders.reduce((obj, ph) => { obj[ph] = ...; return obj }, {})
RECURSIVE PlaceholderObject(_)
PlaceholderObject(names) ==
  IF names = << >> THEN << >>
  ELSE LET rest == PlaceholderObject(Sub(names, 1, Len(names) - 1))
           last == names[Len(names)]
       IN  IF ArrIncludes(rest, last) THEN rest ELSE Append(rest, last)

\* a file: missing, holding text JSON.parse rejects, or holding the document
\* JSON.stringify wrote (one member per own property, in property order)
AbsentFile == [kind |-> "absent", doc |-> << >>]

InvalidFile == [kind |-> "invalid", doc |-> << >>]

JsonFile(doc) == [kind |-> "json", doc |-> doc]

\* the file after writeFile(path, '{}')
EmptyFile == JsonFile(<< >>)

(***************************************************************************)
(* Keys, values and selections of the model.                               *)
(***************************************************************************)
endOfFileMarkerKey == << "@", "_", "E", "N", "D", "_", "O", "F", "_", "F", "I", "L", "E" >>

KeyGreeting == << "g", "r", "e", "e", "t", "i", "n", "g" >>

KeyHi == << "h", "i" >>

\* an integer-like key, the key suggested for the text '5'
KeyFive == << "5" >>

TextHi == << "H", "i" >>

TextHelloName == << "H", "e", "l", "l", "o", " ", "{", "n", "a", "m", "e", "}" >>

TextMarker == << "m", "a", "r", "k", "e", "r" >>

\* `@${key}`
MetaKey(key) == << "@" >> \o key

RECURSIVE DecimalString(_)
DecimalString(n) ==
  IF n < 10 THEN << DigitSeq[n + 1] >>
  ELSE DecimalString(n \div 10) \o << DigitSeq[(n % 10) + 1] >>

\* `${userKey}_${counter}`
SuffixedKey(userKey, counter) == userKey \o << "_" >> \o DecimalString(counter)

\* config.prefix
Prefix == << "S", ".", "c", "u", "r", "r", "e", "n", "t" >>

\* originalPlaceholders.join(', ')
RECURSIVE Join(_)
Join(parts) ==
  IF parts = << >> THEN << >>
  ELSE IF Len(parts) = 1 THEN parts[1]
  ELSE parts[1] \o << ",", " " >> \o Join(Tail(parts))

\* originalPlaceholders.length ? `${prefix}.${key}(${...join(', ')})` : `${prefix}.${key}`
ReplacementText(key, originalPlaceholders) ==
  IF Len(originalPlaceholders) # 0
    THEN Prefix \o << "." >> \o key \o << "(" >> \o Join(originalPlaceholders) \o << ")" >>
    ELSE Prefix \o << "." >> \o key

(***************************************************************************)
(* vscodeUtils.ts: getSelectionAndText.                                    *)
(***************************************************************************)
StartsWith(s, prefix) == OccursAt(s, prefix, 1)

EndsWith(s, suffix) == Len(suffix) <= Len(s) /\ OccursAt(s, suffix, Len(s) - Len(suffix) + 1)

\* s.substring(start, end) with 0-based bounds: the bounds are swapped when
\* start is greater than end
Substring(s, start, end) ==
  IF start <= end THEN Sub(s, start + 1, end) ELSE Sub(s, end + 1, start)

\* the selected text, trimmed and with one layer of quotes removed; undefined
\* (null) when nothing but whitespace is selected
getSelectionAndText(rawSelection) ==
  LET selectedText == Trim(rawSelection)
  IN  IF selectedText = << >> THEN Undefined
      ELSE IF \/ StartsWith(selectedText, << "'" >>) /\ EndsWith(selectedText, << "'" >>)
              \/ StartsWith(selectedText, << "\"" >>) /\ EndsWith(selectedText, << "\"" >>)
        THEN Some(Substring(selectedText, 1, Len(selectedText) - 1))
      ELSE IF \/ StartsWith(selectedText, << "r", "'" >>) /\ EndsWith(selectedText, << "'" >>)
              \/ StartsWith(selectedText, << "r", "\"" >>) /\ EndsWith(selectedText, << "\"" >>)
        THEN Some(Substring(selectedText, 2, Len(selectedText) - 1))
      ELSE Some(selectedText)

(***************************************************************************)
(* arb.ts: handleConflicts.                                                *)
(***************************************************************************)
\* the three shapes of ConflictResult the function returns
CancelledResult(key) ==
  [shouldReturn |-> TRUE, keyUsed |-> Undefined, keyToUse |-> key, replacement |-> Undefined]

\* a reuse result that does not name the key it used
ReuseResultWithoutKeyUsed(used, key, replacementText) ==
  [shouldReturn |-> TRUE, keyUsed |-> Undefined, keyToUse |-> key,
   replacement |-> Some(replacementText)]

ReuseResult(used, key, replacementText) ==
  [shouldReturn |-> TRUE, keyUsed |-> Some(used), keyToUse |-> key,
   replacement |-> Some(replacementText)]

ProceedResult(key) ==
  [shouldReturn |-> FALSE, keyUsed |-> Undefined, keyToUse |-> key, replacement |-> Undefined]

NoResult == ProceedResult(<< >>)

\* arb.ts 55: if (arbContent[userKey])
KeyExists(doc, key) == Truthy(Get(doc, key))

\* arb.ts 80-86: the first `${userKey}_${counter}`, counter = 1, 2, ..., that
\* arbContent[newKey] does not hold
RECURSIVE GenerateNewKey(_, _, _)
GenerateNewKey(doc, key, counter) ==
  IF KeyExists(doc, SuffixedKey(key, counter))
    THEN GenerateNewKey(doc, key, counter + 1)
    ELSE SuffixedKey(key, counter)

\* arb.ts 91-93: Object.keys(arbContent).find(k => typeof arbContent[k] ===
\* 'string' && arbContent[k] === arbText), undefined when there is none
FindExistingKeyForValue(doc, arbText) ==
  LET hit(i) == doc[i].v.t = "string" /\ doc[i].v.s = arbText
  IN  IF \E i \in 1..Len(doc) : hit(i)
        THEN Some(doc[CHOOSE i \in 1..Len(doc) : hit(i) /\ \A j \in 1..(i - 1) : ~hit(j)].k)
        ELSE Undefined

\* arb.ts 95: existingKeyForValue && keyToUse !== existingKeyForValue
ValueConflict(doc, arbText, key) ==
  LET existing == FindExistingKeyForValue(doc, arbText)
  IN  existing.def /\ existing.v # << >> /\ key # existing.v

\* a replacement for a reused key that never has arguments
ReuseReplacementWithoutArguments(key, rawSelection) == Prefix \o << "." >> \o key

\* arb.ts 73-77, 111-115: the replacement for a reused key, its arguments
\* re-detected from the editor's selection
ReuseReplacement(key, rawSelection) ==
  ReplacementText(key, detectAndConvertPlaceholders(rawSelection).originalPlaceholders)

(***************************************************************************)
(* arb.ts: updateSourceArb, the document it writes.                        *)
(***************************************************************************)
\* arb.ts 129-132: the marker's value, when the document has the marker
DetachedMarkerValue(doc) ==
  IF HasOwnProperty(doc, endOfFileMarkerKey)
    THEN [def |-> TRUE, v |-> Get(doc, endOfFileMarkerKey)]
    ELSE NoMarker

\* arb.ts 129-132: the document without the marker
DetachMarker(doc) ==
  IF HasOwnProperty(doc, endOfFileMarkerKey) THEN Delete(doc, endOfFileMarkerKey) ELSE doc

\* arb.ts 136-147: the entry, and its metadata when the text has placeholders
AddEntry(doc, key, value, placeholderText) ==
  LET arbPlaceholders == detectAndConvertPlaceholders(placeholderText).arbPlaceholders
      withEntry == Set(doc, key, StrVal(value))
  IN  IF Len(arbPlaceholders) > 0
        THEN Set(withEntry, MetaKey(key), MetaVal(PlaceholderObject(arbPlaceholders)))
        ELSE withEntry

\* arb.ts 153-155: the marker is assigned again if it was there
ReattachMarker(doc, endOfFileMarkerValue) ==
  IF endOfFileMarkerValue.def
    THEN Set(doc, endOfFileMarkerKey, endOfFileMarkerValue.v)
    ELSE doc

\* arb.ts 123-159: arbContent as updateSourceArb serializes it
UpdatedSourceContent(doc, key, value) ==
  ReattachMarker(AddEntry(DetachMarker(doc), key, value, value), DetachedMarkerValue(doc))

(***************************************************************************)
(* translation.ts: the document performTranslations writes for a target.   *)
(***************************************************************************)
\* translation.ts 67-87: the translation, the metadata of the source text,
\* and the marker again
TranslatedTargetContent(doc, endOfFileMarkerValue, key, translatedText, sourceText) ==
  ReattachMarker(AddEntry(doc, key, translatedText, sourceText), endOfFileMarkerValue)

\* translation.ts 250-269 (translateWithGemini): the text resolved for a
\* response text; undefined when the promise is rejected for want of text
CleanTranslation(translatedText) ==
  IF translatedText = << >> THEN Undefined
  ELSE LET cleanedText == Trim(translatedText)
       IN  IF /\ StartsWith(cleanedText, << "\"" >>)
              /\ EndsWith(cleanedText, << "\"" >>)
              /\ Len(cleanedText) > 1
             THEN Some(Substring(cleanedText, 1, Len(cleanedText) - 1))
             ELSE Some(cleanedText)

(***************************************************************************)
(* translation.ts: findTargetLanguages.                                    *)
(***************************************************************************)
\* config.sourceLanguage
sourceLanguage == << "e", "n" >>

\* config.fileNamePattern is `intl_{lang}.arb`: what precedes and what
\* follows {lang}
PatternPrefix == << "i", "n", "t", "l", "_" >>

PatternSuffix == << ".", "a", "r", "b" >>

\* the extension findTargetLanguages looks for
ArbExtension == << ".", "a", "r", "b" >>

\* fileNamePattern.replace('{lang}', lang)
FileName(lang) == PatternPrefix \o lang \o PatternSuffix

\* [a-zA-Z0-9_\-] of the named group of createFileNameRegex
LangChars == WordChars \cup { "-" }

\* fileNameRegex.exec(file)?.groups?.lang: ^intl_(?<lang>[a-zA-Z0-9_\-]+)\.arb$
SpecificMatch(file) ==
  IF /\ StartsWith(file, PatternPrefix)
     /\ EndsWith(file, PatternSuffix)
     /\ Len(file) > Len(PatternPrefix) + Len(PatternSuffix)
     /\ \A i \in (Len(PatternPrefix) + 1)..(Len(file) - Len(PatternSuffix)) :
          file[i] \in LangChars
    THEN Some(Sub(file, Len(PatternPrefix) + 1, Len(file) - Len(PatternSuffix)))
    ELSE Undefined

\* /[_\-](\w{2,3}(?:[_\-]\w{2,4})?)\.arb$/i matches file from index p
GenericAt(file, p) ==
  LET stem == Len(file) - 4
      words(a, b) == \A i \in a..b : file[i] \in WordChars
  IN  /\ Len(file) >= 4
      /\ ToLowerCase(Sub(file, stem + 1, Len(file))) = ArbExtension
      /\ p >= 1 /\ p <= stem
      /\ file[p] \in { "_", "-" }
      /\ \E n \in 2..3 :
           /\ p + n <= stem
           /\ words(p + 1, p + n)
           /\ \/ p + n = stem
              \/ \E m \in 2..4 :
                   /\ p + n + 1 + m = stem
                   /\ file[p + n + 1] \in { "_", "-" }
                   /\ words(p + n + 2, stem)

\* genericLangRegex.exec(file)?.[1]: the capture of the leftmost match
GenericMatch(file) ==
  IF \E p \in 1..Len(file) : GenericAt(file, p)
    THEN LET p == CHOOSE p \in 1..Len(file) :
                    /\ GenericAt(file, p)
                    /\ \A q \in 1..(p - 1) : ~GenericAt(file, q)
         IN  Some(Sub(file, p + 1, Len(file) - 4))
    ELSE Undefined

\* translation.ts 113-134: the loop over the files of the folder
RECURSIVE CollectTargetLanguages(_, _)
CollectTargetLanguages(listing, found) ==
  IF listing = << >> THEN found
  ELSE LET file == Head(listing)
           specificMatch == SpecificMatch(file)
           genericMatch == GenericMatch(file)
           next ==
             IF ~EndsWith(file, ArbExtension) THEN found
             ELSE IF specificMatch.def /\ specificMatch.v # sourceLanguage
               THEN IF ~ArrIncludes(found, specificMatch.v)
                      THEN Append(found, specificMatch.v) ELSE found
             ELSE IF /\ genericMatch.def
                     /\ file # FileName(sourceLanguage)
                     /\ genericMatch.v # sourceLanguage
                     /\ ~ArrIncludes(found, genericMatch.v)
               THEN Append(found, genericMatch.v)
             ELSE found
       IN  CollectTargetLanguages(Tail(listing), next)

\* the code of every file of a listing, the source file and repeated codes
\* included
CodeOfEveryFile(listing) ==
  LET F[i \in 0..Len(listing)] ==
        IF i = 0 THEN << >>
        ELSE IF SpecificMatch(listing[i]).def THEN Append(F[i - 1], SpecificMatch(listing[i]).v)
        ELSE IF GenericMatch(listing[i]).def THEN Append(F[i - 1], GenericMatch(listing[i]).v)
        ELSE F[i - 1]
  IN  F[Len(listing)]

\* the codes found in a listing of the folder; [...new Set(targetLanguages)]
\* removes nothing, the loop adds no code twice
findTargetLanguages(listing) == CollectTargetLanguages(listing, << >>)

(***************************************************************************)
(* The inputs of the model.                                                *)
(***************************************************************************)
\* the most entries of a document before the operation, the marker aside
MaxEntries == 2

\* the most target languages
MaxTargets == 2

LangSeq == << << "e", "s" >>, << "f", "r" >>, << "d", "e" >>, << "i", "t" >> >>

TargetLangs == { LangSeq[i] : i \in 1..MaxTargets }

AllLangs == TargetLangs \cup { sourceLanguage }

\* the entries the documents of the model are made of
EntryPool ==
  << [k |-> KeyGreeting, v |-> StrVal(TextHelloName)],
     [k |-> KeyGreeting, v |-> StrVal(<< >>)],
     [k |-> MetaKey(KeyGreeting), v |-> MetaVal(<< << "n", "a", "m", "e" >> >>)],
     [k |-> SuffixedKey(KeyGreeting, 1), v |-> StrVal(TextHi)],
     [k |-> KeyHi, v |-> StrVal(TextHi)] >>

\* the entries of the pool with an index in S, in the order of the pool
EntriesOf(S) ==
  LET F[i \in 0..Len(EntryPool)] ==
        IF i = 0 THEN << >>
        ELSE IF i \in S THEN Append(F[i - 1], EntryPool[i]) ELSE F[i - 1]
  IN  F[Len(EntryPool)]

Bodies ==
  { EntriesOf(S) : S \in { S \in SUBSET (1..Len(EntryPool)) :
      /\ Cardinality(S) <= MaxEntries
      /\ \A i, j \in S : i # j => EntryPool[i].k # EntryPool[j].k } }

\* no marker, a marker with a value, a marker with the empty string
Markers ==
  { << >>,
    << [k |-> endOfFileMarkerKey, v |-> StrVal(TextMarker)] >>,
    << [k |-> endOfFileMarkerKey, v |-> StrVal(<< >>)] >> }

\* documents, the marker last when there is one
Documents == { body \o marker : body \in Bodies, marker \in Markers }

SourceFiles == { AbsentFile, InvalidFile } \cup { JsonFile(doc) : doc \in Documents }

\* what is selected in the editor: 'Hi', 'Hello $name', '' and nothing
RawSelections ==
  { << "'", "H", "i", "'" >>,
    << "'", "H", "e", "l", "l", "o", " ", "$", "n", "a", "m", "e", "'" >>,
    << "'", "'" >>,
    << >> }

\* what the user may type at the key prompt, besides accepting the suggestion
TypedKeys == { KeyGreeting, endOfFileMarkerKey, KeyFive } \cup ObjectPrototypeKeys

\* texts of the provider's response
ResponseTexts ==
  { << "H", "o", "l", "a" >>,
    << >>,
    << " " >>,
    << "\"", "\"" >> }

\* what the environment does to a target: nothing, or it fails its read, its
\* translation call or its write
Fates == { "ok", "readFails", "translateFails", "writeFails" }

(***************************************************************************)
(* The state.                                                              *)
(***************************************************************************)
VARIABLES
  tpc,                  \* the step of the text pipeline (SpecText)
  info2,                \* detectAndConvertPlaceholders(info.arbText) (SpecText)
  text,                 \* selectionInfo.selectedText
  info,                 \* placeholderInfo
  suggestedKey,         \* generateSuggestedKey(placeholderInfo.arbText)
  pc,                   \* where runExtraction is
  config,               \* getConfiguration()
  selection,            \* the text of the editor's selection
  editor,               \* the replacement made in the editor, the import
  userKey,              \* userKey of runExtraction
  arbContent,           \* the source document in memory
  keyToUse,             \* keyToUse of handleConflicts
  conflictResult,       \* what handleConflicts returned
  files,                \* the .arb file of each language
  folderExists,         \* whether the arb folder exists
  reading,              \* the language whose file readOrCreateArbFile works on
  targetLanguages,      \* targetLanguages of performTranslations
  completedSteps,       \* the targets performTranslations is done with
  targetArbContent,     \* the target document in memory
  endOfFileMarkerValue, \* the marker value detached from the target document
  fate,                 \* what the environment does to each target
  listing,              \* files of findTargetLanguages: the names readdir gave
  filesBefore,          \* history: the files when the operation started
  translated,           \* history: the text the provider returned for a target
  calls                 \* history: counts of the writes of the source file,
                        \* the provider calls per target, the command runs,
                        \* and what readOrCreateArbFile last returned and
                        \* updateSourceArb returned, and how
                        \* promptForNewLanguage ended

textVars == << tpc, info2 >>

convVars == << text, info, suggestedKey >>

runVars == << pc, config, selection, editor, userKey, arbContent, keyToUse, conflictResult >>

diskVars == << files, folderExists >>

transVars == << reading, targetLanguages, completedSteps, targetArbContent,
                endOfFileMarkerValue, fate >>

scanVars == << listing >>

histVars == << filesBefore, translated, calls >>

vars == << textVars, convVars, runVars, diskVars, transVars, scanVars, histVars >>

NoEditorChange == [replaced |-> FALSE, text |-> << >>, importEnsured |-> FALSE]

\* readOrCreateArbFile has not returned yet
NoRead == [returned |-> "none", aborted |-> FALSE, ioFailed |-> FALSE]

NoCalls ==
  [sourceWrites |-> 0, provider |-> [l \in TargetLangs |-> 0], postCommand |-> 0,
   performTranslations |-> 0, readOrCreateArbFile |-> NoRead,
   updateSourceArb |-> "none", promptForNewLanguage |-> "none"]

\* the configurations: whether translation is on, whether an API key is
\* set, whether a post-extraction command is set
Configs ==
  [autoTranslate : BOOLEAN, geminiApiKey : BOOLEAN, postExtractionCommand : BOOLEAN]

\* nothing converted yet
IdleConversion ==
  /\ tpc = "idle"
  /\ info2 = NoInfo
  /\ text = << >>
  /\ info = NoInfo
  /\ suggestedKey = << >>

\* the values every specification starts its run-local variables with
IdleLocals ==
  /\ selection = << >>
  /\ editor = NoEditorChange
  /\ userKey = << >>
  /\ arbContent = << >>
  /\ keyToUse = << >>
  /\ conflictResult = NoResult
  /\ reading = sourceLanguage
  /\ targetLanguages = << >>
  /\ completedSteps = 0
  /\ targetArbContent = << >>
  /\ endOfFileMarkerValue = NoMarker
  /\ fate = [l \in TargetLangs |-> "ok"]
  /\ translated = [l \in TargetLangs |-> Undefined]
  /\ calls = NoCalls

\* the target files runExtraction is explored with: none, or one with a marker
SpecTargetFiles ==
  { [l \in TargetLangs |-> AbsentFile],
    [l \in TargetLangs |->
       IF l = LangSeq[1]
         THEN JsonFile(<< [k |-> endOfFileMarkerKey, v |-> StrVal(TextMarker)] >>)
         ELSE AbsentFile] }

Init ==
  /\ IdleConversion
  /\ IdleLocals
  /\ listing = << >>
  /\ pc = "idle"
  /\ config \in Configs
  /\ \E src \in SourceFiles, tgt \in SpecTargetFiles :
       files = [l \in AllLangs |-> IF l = sourceLanguage THEN src ELSE tgt[l]]
  /\ folderExists \in { \E l \in AllLangs : files[l].kind # "absent", TRUE }
  /\ filesBefore = files

(***************************************************************************)
(* extension.ts: runExtraction, up to the source document.                 *)
(***************************************************************************)
\* extension.ts 537-551: the selection is taken and converted, the
\* configuration read and a key suggested.  An active editor and a workspace
\* folder are assumed.
RunExtraction ==
  /\ pc = "idle"
  /\ \E raw \in RawSelections :
       LET selectionInfo == getSelectionAndText(raw)
           placeholderInfo == detectAndConvertPlaceholders(selectionInfo.v)
       IN  /\ selection' = raw
           /\ IF ~selectionInfo.def
                THEN /\ pc' = "done"
                     /\ UNCHANGED convVars
                ELSE /\ pc' = "promptForKey"
                     /\ text' = selectionInfo.v
                     /\ info' = placeholderInfo
                     /\ suggestedKey' = generateSuggestedKey(placeholderInfo.arbText)
  /\ UNCHANGED << textVars, scanVars, config, editor, userKey, arbContent, keyToUse, conflictResult,
                  diskVars, transVars, histVars >>

\* a dismissed key prompt that is followed by the reading of the source file
KeyPromptDismissedGoesOn == "readOrCreateArbFile"

\* extension.ts 552: if (!userKey) return
KeyPromptDismissed == "done"

\* extension.ts 551-564: the key prompt; the input box accepts no blank key,
\* and a dismissed prompt ends the operation
PromptForKey ==
  /\ pc = "promptForKey"
  /\ \/ /\ pc' = KeyPromptDismissed
        /\ UNCHANGED << userKey, reading >>
     \/ \E typed \in TypedKeys \cup { suggestedKey } :
          /\ userKey' = typed
          /\ reading' = sourceLanguage
          /\ pc' = "readOrCreateArbFile"
  /\ UNCHANGED << textVars, scanVars, convVars, config, selection, editor, arbContent, keyToUse,
                  conflictResult, diskVars, targetLanguages, completedSteps,
                  targetArbContent, endOfFileMarkerValue, fate, histVars >>

\* what follows readOrCreateArbFile's return.  For the source file
\* (extension.ts 563-567) null ends the operation and a document goes to
\* handleConflicts; for a target (translation.ts 49-56) null becomes {} and
\* the marker is detached.
ReadReturns(isNull, doc) ==
  IF reading = sourceLanguage
    THEN /\ pc' = IF isNull THEN "done" ELSE "handleConflicts"
         /\ arbContent' = IF isNull THEN arbContent ELSE doc
         /\ UNCHANGED << targetArbContent, endOfFileMarkerValue >>
    ELSE LET content == IF isNull THEN << >> ELSE doc
         IN  /\ pc' = "translateWithGemini"
             /\ targetArbContent' = DetachMarker(content)
             /\ endOfFileMarkerValue' = DetachedMarkerValue(content)
             /\ UNCHANGED arbContent

\* history: one more successful writeFile of the source file
SourceWritten == [calls EXCEPT !.sourceWrites = @ + 1]

\* whether the environment lets the file operations of this read succeed: the
\* target's fate decides for a target, either may happen for the source
IoOutcomes ==
  IF reading = sourceLanguage THEN BOOLEAN
  ELSE { fate[reading] # "readFails" }

\* a return on the user's abort only
ReturnsNullOnAbortOnly(aborted, ioFailed) == aborted

\* arb.ts 29 and 39-42: null is returned when the user did not choose reset
\* at the parse-failure prompt, and when a file operation threw
ReturnsNull(aborted, ioFailed) == aborted \/ ioFailed

\* readOrCreateArbFile returns: null or the document, and the history of
\* what it returned and why
ReadEnds(aborted, ioFailed, doc) ==
  LET isNull == ReturnsNull(aborted, ioFailed)
  IN  /\ ReadReturns(isNull, doc)
      /\ calls' = [(IF files'[sourceLanguage] # files[sourceLanguage]
                      THEN SourceWritten ELSE calls)
                     EXCEPT !.readOrCreateArbFile =
                       [returned |-> IF isNull THEN "null" ELSE "document",
                        aborted |-> aborted, ioFailed |-> ioFailed]]

\* arb.ts 14-43: readOrCreateArbFile up to its return or its prompt
ReadOrCreateArbFile ==
  /\ pc = "readOrCreateArbFile"
  /\ \E ok \in IoOutcomes :
       CASE files[reading].kind = "json" ->
              \* readFile, JSON.parse; a failed readFile is caught: null
              /\ UNCHANGED diskVars
              /\ ReadEnds(FALSE, ~ok, files[reading].doc)
         [] files[reading].kind = "invalid" ->
              /\ UNCHANGED diskVars
              /\ IF ok
                   THEN /\ pc' = "parsePrompt"
                        /\ UNCHANGED << arbContent, targetArbContent, endOfFileMarkerValue,
                                        calls >>
                   ELSE ReadEnds(FALSE, TRUE, << >>)
         [] files[reading].kind = "absent" ->
              \* mkdir when the folder is missing, then writeFile '{}'; either
              \* may fail, and a failed writeFile leaves the folder made
              \/ /\ ok
                 /\ folderExists' = TRUE
                 /\ files' = [files EXCEPT ![reading] = EmptyFile]
                 /\ ReadEnds(FALSE, FALSE, << >>)
              \/ /\ ~ok
                 /\ folderExists' \in { folderExists, TRUE }
                 /\ UNCHANGED files
                 /\ ReadEnds(FALSE, TRUE, << >>)
  /\ UNCHANGED << textVars, scanVars, convVars, config, selection, editor, userKey, keyToUse,
                  conflictResult, reading, targetLanguages, completedSteps, fate,
                  filesBefore, translated >>

\* arb.ts 21-29: the answer to "Failed to parse ...": reset writes '{}' and
\* returns {} (null when the write fails), anything else returns null
ParseFailureChoice ==
  /\ pc = "parsePrompt"
  /\ \/ \E ok \in IoOutcomes :
          IF ok
            THEN /\ files' = [files EXCEPT ![reading] = EmptyFile]
                 /\ ReadEnds(FALSE, FALSE, << >>)
            ELSE /\ UNCHANGED files
                 /\ ReadEnds(FALSE, TRUE, << >>)
     \/ /\ UNCHANGED files
        /\ ReadEnds(TRUE, FALSE, << >>)
  /\ UNCHANGED << textVars, scanVars, convVars, config, selection, editor, userKey, keyToUse,
                  conflictResult, folderExists, reading, targetLanguages, completedSteps,
                  fate, filesBefore, translated >>

\* runExtraction going on to updateSourceArb whatever handleConflicts returned
HandleConflictsReturnsIgnored(result) ==
  /\ conflictResult' = result
  /\ pc' = "updateSourceArb"
  /\ userKey' = result.keyToUse
  /\ UNCHANGED editor

(***************************************************************************)
(* arb.ts: handleConflicts, and what runExtraction does with its result.   *)
(***************************************************************************)
\* extension.ts 567-576: a result with shouldReturn ends the operation, after
\* the replacement of the selection and the import when it has a replacement;
\* extension.ts 576: otherwise the key returned is used
HandleConflictsReturns(result) ==
  /\ conflictResult' = result
  /\ IF result.shouldReturn
       THEN /\ pc' = "done"
            /\ editor' = IF result.replacement.def /\ result.replacement.v # << >>
                           THEN [replaced |-> TRUE, text |-> result.replacement.v,
                                 importEnsured |-> TRUE]
                           ELSE editor
            /\ UNCHANGED userKey
       ELSE /\ pc' = "updateSourceArb"
            /\ userKey' = result.keyToUse
            /\ UNCHANGED editor

\* arb.ts 90-119: step 2 from keyToUse = key on, up to its prompt or the return
CheckValue(key) ==
  IF ValueConflict(arbContent, info.arbText, key)
    THEN /\ pc' = "valuePrompt"
         /\ keyToUse' = key
         /\ UNCHANGED << conflictResult, editor, userKey >>
    ELSE /\ keyToUse' = key
         /\ HandleConflictsReturns(ProceedResult(key))

\* arb.ts 51-66: handleConflicts up to its first prompt or its return
HandleConflicts ==
  /\ pc = "handleConflicts"
  /\ IF KeyExists(arbContent, userKey)
       THEN /\ pc' = "keyPrompt"
            /\ keyToUse' = userKey
            /\ UNCHANGED << conflictResult, editor, userKey >>
       ELSE CheckValue(userKey)
  /\ UNCHANGED << textVars, scanVars, convVars, config, selection, arbContent, diskVars, transVars,
                  histVars >>

\* arb.ts 68-88: the answer to "Key ... already exists": dismissed, use the
\* existing key, or create a new key and go on with step 2
KeyConflictChoice ==
  /\ pc = "keyPrompt"
  /\ \/ /\ HandleConflictsReturns(CancelledResult(keyToUse))
        /\ UNCHANGED keyToUse
     \/ /\ HandleConflictsReturns(
             ReuseResult(userKey, keyToUse, ReuseReplacement(userKey, selection)))
        /\ UNCHANGED keyToUse
     \/ CheckValue(GenerateNewKey(arbContent, userKey, 1))
  /\ UNCHANGED << textVars, scanVars, convVars, config, selection, arbContent, diskVars, transVars,
                  histVars >>

\* arb.ts 107-117: the answer to "String ... already exists": dismissed, use
\* the existing key, or add the new key anyway
ValueConflictChoice ==
  /\ pc = "valuePrompt"
  /\ LET existingKeyForValue == FindExistingKeyForValue(arbContent, info.arbText).v
     IN  \/ HandleConflictsReturns(CancelledResult(keyToUse))
         \/ HandleConflictsReturns(
              ReuseResult(existingKeyForValue, keyToUse,
                          ReuseReplacement(existingKeyForValue, selection)))
         \/ HandleConflictsReturns(ProceedResult(keyToUse))
  /\ UNCHANGED << textVars, scanVars, convVars, config, selection, arbContent, keyToUse, diskVars,
                  transVars, histVars >>

(***************************************************************************)
(* arb.ts: updateSourceArb, and runExtraction after it.                    *)
(***************************************************************************)
\* extension.ts 593-617: with translation on and an API key, performTranslations
\* is next; then the post-extraction command when one is set
AfterTranslations == IF config.postExtractionCommand THEN "postCommand" ELSE "done"

AfterSourceUpdate ==
  IF config.autoTranslate /\ config.geminiApiKey THEN "performTranslations"
  ELSE AfterTranslations

\* runExtraction going on after a failed update as after a successful one
AfterFailedUpdateGoesOn == AfterSourceUpdate

\* extension.ts 580: if (!updateSuccess) return
AfterFailedUpdate == "done"

\* arb.ts 123-174 and extension.ts 579-590: the document is changed in memory
\* and written; a failed write ends the operation, a successful one is
\* followed by the replacement of the selection and the import
UpdateSourceArb ==
  /\ pc = "updateSourceArb"
  /\ arbContent' = UpdatedSourceContent(arbContent, userKey, info.arbText)
  /\ \/ /\ files' = [files EXCEPT ![sourceLanguage] = JsonFile(arbContent')]
        /\ calls' = [SourceWritten EXCEPT !.updateSourceArb = "true"]
        /\ editor' = [replaced |-> TRUE,
                      text |-> ReplacementText(userKey, info.originalPlaceholders),
                      importEnsured |-> TRUE]
        /\ pc' = AfterSourceUpdate
     \/ /\ pc' = AfterFailedUpdate
        /\ calls' = [calls EXCEPT !.updateSourceArb = "false"]
        /\ UNCHANGED << files, editor >>
  /\ UNCHANGED << textVars, scanVars, convVars, config, selection, userKey, keyToUse, conflictResult,
                  folderExists, transVars, filesBefore, translated >>

(***************************************************************************)
(* translation.ts: performTranslations.                                    *)
(***************************************************************************)
\* fs.promises.readdir(arbFolderPath): the names of the files of the folder,
\* the source file first and the targets in the order of LangSeq
Listing ==
  LET order == << sourceLanguage >> \o SubSeq(LangSeq, 1, MaxTargets)
      F[i \in 0..Len(order)] ==
        IF i = 0 THEN << >>
        ELSE IF files[order[i]].kind # "absent"
          THEN Append(F[i - 1], FileName(order[i])) ELSE F[i - 1]
  IN  F[Len(order)]

\* the fates the environment may have for the targets of a list: "ok" for
\* every language that is not in it
FatesFor(langs) ==
  { f \in [TargetLangs -> Fates] : \A l \in TargetLangs : ~ArrIncludes(langs, l) => f[l] = "ok" }

\* translation.ts 40-49: the loop goes to its first target
StartLoop(langs) ==
  /\ targetLanguages' = langs
  /\ completedSteps' = 0
  /\ reading' = langs[1]
  /\ pc' = "readOrCreateArbFile"
  /\ fate' \in FatesFor(langs)

\* translation.ts 18-28: the targets are looked up; a missing or unreadable
\* folder gives none, and with none the user is asked for a language
PerformTranslations ==
  /\ pc = "performTranslations"
  /\ calls' = [calls EXCEPT !.performTranslations = @ + 1]
  /\ \E readable \in { folderExists, FALSE } :
       /\ listing' = IF readable THEN Listing ELSE << >>
       /\ LET found == findTargetLanguages(listing')
          IN  IF Len(found) = 0
                THEN /\ pc' = "newLanguagePrompt"
                     /\ UNCHANGED << reading, targetLanguages, completedSteps, fate >>
                ELSE StartLoop(found)
  /\ UNCHANGED << textVars, convVars, config, selection, editor, userKey, arbContent,
                  keyToUse, conflictResult, diskVars, targetArbContent,
                  endOfFileMarkerValue, filesBefore, translated >>

\* every target language taken for the one that was added
EveryLanguageAdded(newLang) == SubSeq(LangSeq, 1, MaxTargets)

\* translation.ts 21-23: targetLanguages.push(newLang) on the empty list
AddedLanguage(newLang) == << newLang >>

\* translation.ts 156-202 and 22-27: promptForNewLanguage.  Anything but Yes,
\* a dismissed input box or the source language give no language, and
\* performTranslations returns; a code gives the folder and an empty file for
\* it, unless making them fails
PromptForNewLanguage ==
  /\ pc = "newLanguagePrompt"
  /\ \/ /\ pc' = AfterTranslations
        /\ calls' = [calls EXCEPT !.promptForNewLanguage = "declined"]
        /\ UNCHANGED << diskVars, reading, targetLanguages, completedSteps, fate >>
     \/ \E newLang \in TargetLangs :
          \/ /\ folderExists' = TRUE
             /\ files' = [files EXCEPT ![newLang] =
                            IF @.kind = "absent" THEN EmptyFile ELSE @]
             /\ calls' = [calls EXCEPT !.promptForNewLanguage = "added"]
             /\ StartLoop(AddedLanguage(newLang))
          \/ /\ ~folderExists \/ files[newLang].kind = "absent"
             /\ folderExists' \in { folderExists, files[newLang].kind = "absent" }
             /\ pc' = AfterTranslations
             /\ calls' = [calls EXCEPT !.promptForNewLanguage = "failed"]
             /\ UNCHANGED << files, reading, targetLanguages, completedSteps, fate >>
  /\ UNCHANGED << textVars, scanVars, convVars, config, selection, editor, userKey, arbContent,
                  keyToUse, conflictResult, targetArbContent, endOfFileMarkerValue,
                  filesBefore, translated >>

\* translation.ts 92-99: the catch and finally blocks and the end of the loop
\* body: the step is counted and the loop goes to the next target, or
\* performTranslations returns after the last
NextTarget ==
  /\ completedSteps' = completedSteps + 1
  /\ IF completedSteps + 1 < Len(targetLanguages)
       THEN /\ reading' = targetLanguages[completedSteps + 2]
            /\ pc' = "readOrCreateArbFile"
       ELSE /\ pc' = AfterTranslations
            /\ UNCHANGED reading

\* a failed cycle that goes on to the write of the target
TargetFailsThenWrites ==
  /\ pc' = "writeTarget"
  /\ UNCHANGED << reading, completedSteps >>

\* a failed cycle started again for the same target
TargetFailsRetries ==
  /\ pc' = "readOrCreateArbFile"
  /\ UNCHANGED << reading, completedSteps >>

\* translation.ts 92-94: a failure of the target's cycle is reported, and the
\* loop goes on
TargetFails == NextTarget

\* translation.ts 61-87: the provider is called; its failure is the target's,
\* its text is put in the target document with the metadata and the marker
TranslateWithGemini ==
  /\ pc = "translateWithGemini"
  /\ calls' = [calls EXCEPT !.provider[reading] = @ + 1]
  /\ IF fate[reading] = "translateFails"
       THEN /\ TargetFails
            /\ UNCHANGED << targetArbContent, translated >>
       ELSE \E translatedText \in ResponseTexts :
              LET translation == CleanTranslation(translatedText)
              IN  IF ~translation.def
                    THEN /\ TargetFails
                         /\ UNCHANGED << targetArbContent, translated >>
                    ELSE /\ targetArbContent' =
                              TranslatedTargetContent(targetArbContent, endOfFileMarkerValue,
                                                      userKey, translation.v, info.arbText)
                         /\ translated' = [translated EXCEPT ![reading] = translation]
                         /\ pc' = "writeTarget"
                         /\ UNCHANGED << reading, completedSteps >>
  /\ UNCHANGED << textVars, scanVars, convVars, config, selection, editor, userKey, arbContent,
                  keyToUse, conflictResult, diskVars, targetLanguages,
                  endOfFileMarkerValue, fate, filesBefore >>

\* translation.ts 90: the target document is written, or the write fails
WriteTarget ==
  /\ pc = "writeTarget"
  /\ IF fate[reading] = "writeFails"
       THEN /\ TargetFails
            /\ UNCHANGED files
       ELSE /\ files' = [files EXCEPT ![reading] = JsonFile(targetArbContent)]
            /\ NextTarget
  /\ UNCHANGED << textVars, scanVars, convVars, config, selection, editor, userKey, arbContent,
                  keyToUse, conflictResult, folderExists, targetLanguages, targetArbContent,
                  endOfFileMarkerValue, fate, histVars >>

\* extension.ts 605-616: the post-extraction command is run
RunPostExtractionCommand ==
  /\ pc = "postCommand"
  /\ calls' = [calls EXCEPT !.postCommand = @ + 1]
  /\ pc' = "done"
  /\ UNCHANGED << textVars, scanVars, convVars, config, selection, editor, userKey, arbContent,
                  keyToUse, conflictResult, diskVars, transVars, filesBefore, translated >>

Next ==
  \/ RunExtraction
  \/ PromptForKey
  \/ ReadOrCreateArbFile
  \/ ParseFailureChoice
  \/ HandleConflicts
  \/ KeyConflictChoice
  \/ ValueConflictChoice
  \/ UpdateSourceArb
  \/ PerformTranslations
  \/ PromptForNewLanguage
  \/ TranslateWithGemini
  \/ WriteTarget
  \/ RunPostExtractionCommand

Spec == Init /\ [][Next]_vars

(***************************************************************************)
(* performTranslations on its own: the state at its call (extension.ts     *)
(* 599), after the source document was written, over target files of       *)
(* every kind.                                                             *)
(***************************************************************************)
\* the selections with a text to extract
ExtractedSelections ==
  { raw \in RawSelections :
      getSelectionAndText(raw).def /\ getSelectionAndText(raw).v # << >> }

\* the keys handleConflicts returned with Proceed
TranslationKeys == { KeyGreeting, endOfFileMarkerKey }

\* a target file before the call: absent, unparsable, with the marker only,
\* with an older translation and the marker, with an older translation
\* followed by another entry
TargetFilePool ==
  { AbsentFile, InvalidFile,
    JsonFile(<< [k |-> endOfFileMarkerKey, v |-> StrVal(TextMarker)] >>),
    JsonFile(<< [k |-> KeyGreeting, v |-> StrVal(TextHi)],
                [k |-> endOfFileMarkerKey, v |-> StrVal(TextMarker)] >>),
    JsonFile(<< [k |-> KeyGreeting, v |-> StrVal(TextHi)],
                [k |-> KeyHi, v |-> StrVal(TextHi)] >>) }

InitTranslation ==
  /\ tpc = "idle"
  /\ info2 = NoInfo
  /\ selection \in ExtractedSelections
  /\ text = getSelectionAndText(selection).v
  /\ info = detectAndConvertPlaceholders(text)
  /\ suggestedKey = generateSuggestedKey(info.arbText)
  /\ userKey \in TranslationKeys
  /\ keyToUse = userKey
  /\ conflictResult = ProceedResult(userKey)
  /\ arbContent = UpdatedSourceContent(<< >>, userKey, info.arbText)
  /\ editor = [replaced |-> TRUE,
               text |-> ReplacementText(userKey, info.originalPlaceholders),
               importEnsured |-> TRUE]
  /\ config = [autoTranslate |-> TRUE, geminiApiKey |-> TRUE, postExtractionCommand |-> TRUE]
  /\ pc = "performTranslations"
  /\ \E tgt \in [TargetLangs -> TargetFilePool] :
       files = [l \in AllLangs |-> IF l = sourceLanguage THEN JsonFile(arbContent) ELSE tgt[l]]
  /\ folderExists = TRUE
  /\ reading = sourceLanguage
  /\ targetLanguages = << >>
  /\ completedSteps = 0
  /\ targetArbContent = << >>
  /\ endOfFileMarkerValue = NoMarker
  /\ fate = [l \in TargetLangs |-> "ok"]
  /\ listing = << >>
  /\ filesBefore = files
  /\ translated = [l \in TargetLangs |-> Undefined]
  /\ calls = [NoCalls EXCEPT !.sourceWrites = 1,
                            !.updateSourceArb = "true",
                            !.readOrCreateArbFile =
                              [returned |-> "document", aborted |-> FALSE,
                               ioFailed |-> FALSE]]

NextTranslation ==
  \/ PerformTranslations
  \/ PromptForNewLanguage
  \/ ReadOrCreateArbFile
  \/ ParseFailureChoice
  \/ TranslateWithGemini
  \/ WriteTarget
  \/ RunPostExtractionCommand

SpecTranslation == InitTranslation /\ [][NextTranslation]_vars

(***************************************************************************)
(* handleConflicts on its own: the state at its call (extension.ts 567),   *)
(* over documents in which suffixed keys and empty values occur.           *)
(***************************************************************************)
\* the most entries of a document given to handleConflicts, the marker aside
MaxConflictEntries == 3

\* the entries of these documents: those of EntryPool, and suffixed keys with
\* an empty and a non-empty value
ConflictEntryPool ==
  EntryPool \o
  << [k |-> SuffixedKey(KeyGreeting, 1), v |-> StrVal(<< >>)],
     [k |-> SuffixedKey(KeyGreeting, 2), v |-> StrVal(TextHi)],
     [k |-> KeyHi, v |-> StrVal(<< >>)] >>

ConflictBodies ==
  LET pick(S) ==
        LET F[i \in 0..Len(ConflictEntryPool)] ==
              IF i = 0 THEN << >>
              ELSE IF i \in S THEN Append(F[i - 1], ConflictEntryPool[i]) ELSE F[i - 1]
        IN  F[Len(ConflictEntryPool)]
  IN  { pick(S) : S \in { S \in SUBSET (1..Len(ConflictEntryPool)) :
          /\ Cardinality(S) <= MaxConflictEntries
          /\ \A i, j \in S : i # j => ConflictEntryPool[i].k # ConflictEntryPool[j].k } }

ConflictDocuments == { body \o marker : body \in ConflictBodies, marker \in Markers }

\* the selections getSelectionAndText returns a text for
SelectionsWithText == { raw \in RawSelections : getSelectionAndText(raw).def }

InitConflicts ==
  /\ tpc = "idle"
  /\ info2 = NoInfo
  /\ selection \in SelectionsWithText
  /\ text = getSelectionAndText(selection).v
  /\ info = detectAndConvertPlaceholders(text)
  /\ suggestedKey = generateSuggestedKey(info.arbText)
  /\ userKey \in { KeyGreeting, KeyHi, suggestedKey }
  /\ arbContent \in ConflictDocuments
  /\ keyToUse = << >>
  /\ conflictResult = NoResult
  /\ editor = NoEditorChange
  /\ config = [autoTranslate |-> FALSE, geminiApiKey |-> FALSE, postExtractionCommand |-> FALSE]
  /\ pc = "handleConflicts"
  /\ files = [l \in AllLangs |-> IF l = sourceLanguage THEN JsonFile(arbContent) ELSE AbsentFile]
  /\ folderExists = TRUE
  /\ reading = sourceLanguage
  /\ targetLanguages = << >>
  /\ completedSteps = 0
  /\ targetArbContent = << >>
  /\ endOfFileMarkerValue = NoMarker
  /\ fate = [l \in TargetLangs |-> "ok"]
  /\ listing = << >>
  /\ filesBefore = files
  /\ translated = [l \in TargetLangs |-> Undefined]
  /\ calls = [NoCalls EXCEPT !.readOrCreateArbFile =
                              [returned |-> "document", aborted |-> FALSE,
                               ioFailed |-> FALSE]]

NextConflicts ==
  \/ HandleConflicts
  \/ KeyConflictChoice
  \/ ValueConflictChoice

SpecConflicts == InitConflicts /\ [][NextConflicts]_vars

(***************************************************************************)
(* findTargetLanguages on its own: the folder lists up to MaxFiles files,  *)
(* in any order, and the function is applied to the listing.               *)
(***************************************************************************)
\* the most files of the folder
MaxFiles == 3

LangFrCA == << "f", "r", "-", "C", "A" >>

\* the names the folder's files may have: the source file, files of the
\* configured pattern, files of another prefix, a file whose extension is in
\* upper case, and a file without a code
FileNamePool ==
  << FileName(sourceLanguage),
     FileName(LangSeq[1]),
     FileName(LangFrCA),
     << "a", "p", "p", "_", "e", "s", ".", "a", "r", "b" >>,
     << "a", "p", "p", "_", "e", "n", ".", "a", "r", "b" >>,
     << "i", "n", "t", "l", "_", "d", "e", ".", "A", "R", "B" >>,
     << "R", "E", "A", "D", "M", "E", ".", "a", "r", "b" >> >>

\* what readdir may return: distinct names, in any order
Listings ==
  { l \in UNION { [1..n -> { FileNamePool[i] : i \in 1..Len(FileNamePool) }] : n \in 0..MaxFiles } :
      \A i, j \in 1..Len(l) : l[i] = l[j] => i = j }

InitDiscovery ==
  /\ IdleConversion
  /\ IdleLocals
  /\ listing \in Listings
  /\ pc = "findTargetLanguages"
  /\ config = [autoTranslate |-> TRUE, geminiApiKey |-> TRUE, postExtractionCommand |-> FALSE]
  /\ files = [l \in AllLangs |-> AbsentFile]
  /\ folderExists = TRUE
  /\ filesBefore = files

\* translation.ts 105-144 applied to the listing
FindTargetLanguages ==
  /\ pc = "findTargetLanguages"
  /\ targetLanguages' = findTargetLanguages(listing)
  /\ pc' = "found"
  /\ UNCHANGED << textVars, convVars, config, selection, editor, userKey, arbContent,
                  keyToUse, conflictResult, diskVars, reading, completedSteps,
                  targetArbContent, endOfFileMarkerValue, fate, scanVars, histVars >>

NextDiscovery == FindTargetLanguages

SpecDiscovery == InitDiscovery /\ [][NextDiscovery]_vars

(***************************************************************************)
(* The two pure functions on their own: a text is converted, a key is      *)
(* suggested for the converted text, and the converted text is converted   *)
(* again.                                                                  *)
(***************************************************************************)
InitText ==
  /\ tpc = "input"
  /\ info2 = NoInfo
  /\ text \in Texts
  /\ info = NoInfo
  /\ suggestedKey = << >>
  /\ IdleLocals
  /\ listing = << >>
  /\ pc = "done"
  /\ config = [autoTranslate |-> FALSE, geminiApiKey |-> FALSE,
               postExtractionCommand |-> FALSE]
  /\ files = [l \in AllLangs |-> AbsentFile]
  /\ folderExists = FALSE
  /\ filesBefore = files

\* utils.ts 4-52 applied to the text
Convert ==
  /\ tpc = "input"
  /\ info' = detectAndConvertPlaceholders(text)
  /\ tpc' = "converted"
  /\ UNCHANGED << info2, text, suggestedKey, runVars, diskVars, transVars, scanVars, histVars >>

\* utils.ts 55-71 applied to the converted text, as extension.ts 550 does
SuggestKey ==
  /\ tpc = "converted"
  /\ suggestedKey' = generateSuggestedKey(info.arbText)
  /\ tpc' = "suggested"
  /\ UNCHANGED << info2, text, info, runVars, diskVars, transVars, scanVars, histVars >>

\* utils.ts 4-52 applied to the converted text, as arb.ts 139 and
\* translation.ts 70 do
Reconvert ==
  /\ tpc = "suggested"
  /\ info2' = detectAndConvertPlaceholders(info.arbText)
  /\ tpc' = "reconverted"
  /\ UNCHANGED << convVars, runVars, diskVars, transVars, scanVars, histVars >>

NextText == Convert \/ SuggestKey \/ Reconvert

SpecText == InitText /\ [][NextText]_vars

(***************************************************************************)
(* Properties.                                                             *)
(***************************************************************************)
\* performTranslations has returned
TranslationsReturned ==
  /\ calls.performTranslations = 1
  /\ pc \in { "postCommand", "done" }

\* the file of a target holds the text the provider returned under the key
HoldsTranslation(l) ==
  /\ files[l].kind = "json"
  /\ translated[l].def
  /\ HasOwnProperty(files[l].doc, userKey)
  /\ Get(files[l].doc, userKey) = StrVal(translated[l].v)

HandleConflictsCompleted == conflictResult # NoResult

\* C2: when handleConflicts has returned Proceed, the document it was given
\* has no string-valued entry under the key it returned.
C2_ProceedKeyIsFree ==
  ( /\ HandleConflictsCompleted
    /\ ~conflictResult.shouldReturn
    /\ pc = "updateSourceArb" )
  => ~( /\ HasOwnProperty(arbContent, conflictResult.keyToUse)
        /\ Get(arbContent, conflictResult.keyToUse).t = "string" )

IsProceed(r) == ~r.shouldReturn

IsReuseExisting(r) == r.shouldReturn /\ r.keyUsed.def /\ r.replacement.def

IsCancelled(r) == r.shouldReturn /\ ~r.replacement.def

\* C3: every result handleConflicts returns is exactly one of Proceed,
\* ReuseExisting (a key used and a replacement) and Cancelled (no
\* replacement).
C3_ExactlyOneOutcome ==
  HandleConflictsCompleted =>
    Cardinality({ o \in { "Proceed", "ReuseExisting", "Cancelled" } :
                    \/ o = "Proceed" /\ IsProceed(conflictResult)
                    \/ o = "ReuseExisting" /\ IsReuseExisting(conflictResult)
                    \/ o = "Cancelled" /\ IsCancelled(conflictResult) }) = 1

\* a run that ended by reusing the key of an entry with the same value
C3_Witness ==
  /\ pc = "done"
  /\ HandleConflictsCompleted
  /\ IsReuseExisting(conflictResult)
  /\ conflictResult.keyUsed.v # userKey
  /\ editor.replaced

\* the marker is the last key of a document, with a value
MarkerIsLast(doc, value) ==
  /\ Len(doc) >= 1
  /\ doc[Len(doc)].k = endOfFileMarkerKey
  /\ doc[Len(doc)].v = value

\* the file of a language had the marker when the operation started
HadMarker(l) ==
  /\ filesBefore[l].kind = "json"
  /\ HasOwnProperty(filesBefore[l].doc, endOfFileMarkerKey)

\* updateSourceArb has written the source document
SourceUpdated ==
  /\ HandleConflictsCompleted
  /\ ~conflictResult.shouldReturn
  /\ editor.replaced

\* performTranslations has written the document it read for a target
TargetUpdated(l) ==
  /\ fate[l] = "ok"
  /\ translated[l].def
  /\ ~(pc = "writeTarget" /\ reading = l)

\* C4: a document that had the marker, once written by updateSourceArb or by
\* performTranslations, has the marker with its original value as its last
\* key.
C4_MarkerStaysLast ==
  /\ SourceUpdated /\ HadMarker(sourceLanguage) =>
       MarkerIsLast(files[sourceLanguage].doc,
                    Get(filesBefore[sourceLanguage].doc, endOfFileMarkerKey))
  /\ \A l \in TargetLangs :
       TargetUpdated(l) /\ HadMarker(l) =>
         MarkerIsLast(files[l].doc, Get(filesBefore[l].doc, endOfFileMarkerKey))

Converted == tpc \in { "converted", "suggested", "reconverted" }

NameSet(r) == Range(r.arbPlaceholders)

\* C5: converting the converted text again gives the same text and the same
\* set of placeholder names.
C5_Idempotent ==
  tpc = "reconverted" =>
    /\ info2.arbText = info.arbText
    /\ NameSet(info2) = NameSet(info)

\* index i of arbPlaceholders is the name of, or is, index i of
\* originalPlaceholders
Corresponds(r) ==
  /\ Len(r.originalPlaceholders) = Len(r.arbPlaceholders)
  /\ \A i \in 1..Len(r.originalPlaceholders) :
       \/ r.arbPlaceholders[i] = simpleName(r.originalPlaceholders[i])
       \/ r.arbPlaceholders[i] = r.originalPlaceholders[i]

\* C6: the two lists of a conversion have the same length, and index i of
\* one is the name derived from (or, for a placeholder already in the text,
\* equal to) index i of the other.
C6_SameLength ==
  /\ Converted => Corresponds(info)
  /\ tpc = "reconverted" => Corresponds(info2)

\* a conversion with two placeholders, one of them renamed
C6_Witness ==
  /\ Converted
  /\ Len(info.originalPlaceholders) >= 2
  /\ \E i \in 1..Len(info.originalPlaceholders) :
       info.arbPlaceholders[i] # info.originalPlaceholders[i]

\* C7: no name occurs twice in arbPlaceholders.
C7_UniqueNames ==
  Converted =>
    \A i, j \in 1..Len(info.arbPlaceholders) :
      i # j => info.arbPlaceholders[i] # info.arbPlaceholders[j]

\* the text with every match of dartPlaceholderRegex replaced by its {name}
RECURSIVE EveryOccurrenceReplaced(_, _)
EveryOccurrenceReplaced(t, from) ==
  LET m == dartPlaceholderRegex(t, from)
  IN  IF ~m.found THEN Sub(t, from, Len(t))
      ELSE Sub(t, from, m.index - 1) \o Braced(simpleName(m.capture))
             \o EveryOccurrenceReplaced(t, m.end + 1)

\* C8: arbText is the text with every interpolation occurrence replaced by
\* its {name}.
C8_EveryOccurrenceReplaced ==
  Converted => info.arbText = EveryOccurrenceReplaced(text, 1)

KeyChars == LowerLetters \cup UpperLetters \cup Digits

\* ^[a-z][a-zA-Z0-9]*$
IsIdentifier(key) ==
  /\ Len(key) >= 1
  /\ key[1] \in LowerLetters
  /\ \A i \in 1..Len(key) : key[i] \in KeyChars

\* C9: the suggested key is the fallback identifier or matches
\* ^[a-z][a-zA-Z0-9]*$, and has at most 40 characters.
C9_KeyShape ==
  tpc \in { "suggested", "reconverted" } =>
    /\ suggestedKey = FallbackKey \/ IsIdentifier(suggestedKey)
    /\ Len(suggestedKey) <= MaxKeyLength

\* C10: when the operation has ended on a dismissed conflict prompt, the
\* source file is what it was when the operation started, the selection is
\* not replaced and performTranslations was not called.
C10_DismissChangesNothing ==
  ( /\ pc = "done"
    /\ HandleConflictsCompleted
    /\ IsCancelled(conflictResult) )
  => /\ files[sourceLanguage] = filesBefore[sourceLanguage]
     /\ ~editor.replaced
     /\ calls.performTranslations = 0

\* the writes of '{}' readOrCreateArbFile may make: one when the source file
\* was missing or unparsable when the operation started
PreparationWrites == IF filesBefore[sourceLanguage].kind = "json" THEN 0 ELSE 1

\* C11 as stated: the source file is written at most once in an operation,
\* and only after handleConflicts has returned Proceed.
C11_WrittenAtMostOnce ==
  /\ calls.sourceWrites <= 1
  /\ calls.sourceWrites >= 1 =>
       HandleConflictsCompleted /\ IsProceed(conflictResult)

\* C11: the document is written at most once, and only after handleConflicts
\* has returned Proceed; before that the only write of the source file is
\* the one '{}' that creates a missing file or resets an unparsable one.
C11_OneDocumentWrite ==
  /\ calls.sourceWrites <= PreparationWrites + 1
  /\ ~(HandleConflictsCompleted /\ IsProceed(conflictResult)) =>
       /\ calls.sourceWrites <= PreparationWrites
       /\ files[sourceLanguage] \in { filesBefore[sourceLanguage], EmptyFile }

\* a missing source file was created and then written with the new entry
C11_Witness ==
  /\ filesBefore[sourceLanguage].kind = "absent"
  /\ calls.sourceWrites = 2
  /\ SourceUpdated
  /\ HasOwnProperty(files[sourceLanguage].doc, userKey)

C13_AbortLeavesFile ==
  calls.readOrCreateArbFile.aborted /\ filesBefore[reading].kind = "invalid" =>
    files[reading] = filesBefore[reading]

\* C14: when updateSourceArb has returned false, the selection is not
\* replaced, no import is inserted, performTranslations is not called, no
\* target is read, translated or written, and the command is not run.
C14_FailedUpdateEndsOperation ==
  calls.updateSourceArb = "false" =>
    /\ pc = "done"
    /\ ~editor.replaced
    /\ ~editor.importEnsured
    /\ calls.performTranslations = 0
    /\ calls.postCommand = 0
    /\ \A l \in TargetLangs :
         /\ calls.provider[l] = 0
         /\ files[l] = filesBefore[l]
         /\ ~translated[l].def

\* the update failed with translation on, an API key and a command set
C14_Witness ==
  /\ calls.updateSourceArb = "false"
  /\ config.autoTranslate
  /\ config.geminiApiKey
  /\ config.postExtractionCommand
  /\ pc = "done"

\* performTranslations is in the cycle of a target
InLoop ==
  /\ pc \in { "readOrCreateArbFile", "parsePrompt", "translateWithGemini", "writeTarget" }
  /\ reading # sourceLanguage

\* nothing of the cycle of a target has happened
NotStarted(l) ==
  /\ calls.provider[l] = 0
  /\ ~translated[l].def
  /\ files[l] = filesBefore[l]

\* C15: the targets are processed one at a time in the order of the list:
\* the target in its cycle is the one after those done, no later target has
\* started, the provider is called at most once per target, and when
\* performTranslations has returned from the loop every target had its one
\* cycle with its one provider call.
C15_OneTargetAtATime ==
  /\ \A l \in TargetLangs : calls.provider[l] <= 1
  /\ \A i, j \in 1..Len(targetLanguages) :
       i # j => targetLanguages[i] # targetLanguages[j]
  /\ InLoop =>
       /\ completedSteps < Len(targetLanguages)
       /\ reading = targetLanguages[completedSteps + 1]
       /\ \A i \in 1..Len(targetLanguages) :
            /\ i > completedSteps + 1 => NotStarted(targetLanguages[i])
            /\ i <= completedSteps => calls.provider[targetLanguages[i]] = 1
  /\ TranslationsReturned /\ Len(targetLanguages) > 0 =>
       /\ completedSteps = Len(targetLanguages)
       /\ \A i \in 1..Len(targetLanguages) : calls.provider[targetLanguages[i]] = 1

\* two targets were processed, the translation call of the first failed
C15_Witness ==
  /\ TranslationsReturned
  /\ Len(targetLanguages) = 2
  /\ fate[targetLanguages[1]] = "translateFails"
  /\ calls.provider[targetLanguages[1]] = 1
  /\ HoldsTranslation(targetLanguages[2])

\* 'Order not found ${data.order.code}'
TextOrderNotFound ==
  << "O", "r", "d", "e", "r", " ", "n", "o", "t", " ", "f", "o", "u", "n", "d", " ",
     "$", "{", "d", "a", "t", "a", ".", "o", "r", "d", "e", "r", ".", "c", "o", "d",
     "e", "}" >>

\* the distinct expressions dartPlaceholderRegex captures in a text, in order
RECURSIVE DartExpressions(_, _, _)
DartExpressions(t, from, seen) ==
  LET m == dartPlaceholderRegex(t, from)
  IN  IF ~m.found THEN seen
      ELSE DartExpressions(t, m.end + 1,
             IF ArrIncludes(seen, m.capture) THEN seen ELSE Append(seen, m.capture))

\* n is the text after the last "." of c, or c when c has no "."
IsLastSegment(n, c) ==
  /\ \A i \in 1..Len(n) : n[i] # "."
  /\ \/ c = n
     \/ /\ Len(c) > Len(n)
        /\ Sub(c, Len(c) - Len(n) + 1, Len(c)) = n
        /\ c[Len(c) - Len(n)] = "."

\* a name is the last dot-separated segment of an expression without its
\* arithmetic suffix, its trailing ! and the spaces around it; the fallback
\* name when that segment is empty
NamedByLastSegment(name, expression) ==
  LET cleaned == Trim(StripNullAssertion(StripMathSuffix(expression)))
  IN  \/ name # << >> /\ IsLastSegment(name, cleaned)
      \/ name = FallbackName /\ IsLastSegment(<< >>, cleaned)

\* C16: the expressions of the interpolations are kept in full and in order
\* as the originals, each named by the last dot-separated segment of the
\* expression without its arithmetic suffix and trailing ! (by the fallback
\* name when that segment is empty); 'Order not found ${data.order.code}'
\* gives 'Order not found {code}', [code] and [data.order.code].
C16_LastSegmentNames ==
  Converted =>
    LET exprs == DartExpressions(text, 1, << >>)
    IN  /\ Len(info.originalPlaceholders) >= Len(exprs)
        /\ Len(info.arbPlaceholders) >= Len(exprs)
        /\ \A i \in 1..Len(exprs) :
             /\ info.originalPlaceholders[i] = exprs[i]
             /\ NamedByLastSegment(info.arbPlaceholders[i], exprs[i])
        /\ text = TextOrderNotFound =>
             /\ info.arbText =
                  << "O", "r", "d", "e", "r", " ", "n", "o", "t", " ", "f", "o", "u",
                     "n", "d", " ", "{", "c", "o", "d", "e", "}" >>
             /\ info.arbPlaceholders = << << "c", "o", "d", "e" >> >>
             /\ info.originalPlaceholders =
                  << 
                     << "d", "a", "t", "a", ".", "o", "r", "d", "e", "r", ".", "c",
                        "o", "d", "e" >> >>

\* the example text is converted
C16_Witness ==
  /\ Converted
  /\ text = TextOrderNotFound
  /\ info.arbPlaceholders = << << "c", "o", "d", "e" >> >>

\* C17 as stated: the key suggested for 'Order not found ${data.order.code}'
\* is orderNotFoundCode.
C17_SuggestsOrderNotFoundCode ==
  tpc \in { "suggested", "reconverted" } /\ text = TextOrderNotFound =>
    suggestedKey = << "o", "r", "d", "e", "r", "N", "o", "t", "F", "o", "u", "n", "d",
                      "C", "o", "d", "e" >>

\* C17: the key suggested for 'Order not found ${data.order.code}', whose
\* converted text is 'Order not found {code}', is orderNotFound: the
\* placeholder is left out of the key.
C17_SuggestsOrderNotFound ==
  tpc \in { "suggested", "reconverted" } /\ text = TextOrderNotFound =>
    suggestedKey = << "o", "r", "d", "e", "r", "N", "o", "t", "F", "o", "u", "n", "d" >>

\* a key was suggested for the example text
C17_Witness ==
  /\ tpc = "suggested"
  /\ text = TextOrderNotFound
  /\ Includes(info.arbText, << "{", "c", "o", "d", "e", "}" >>)
  /\ suggestedKey # FallbackKey

\* the expressions separated by ", "
CommaSeparated(args) ==
  LET F[i \in 0..Len(args)] ==
        IF i = 0 THEN << >>
        ELSE IF i = 1 THEN args[1]
        ELSE F[i - 1] \o << ",", " " >> \o args[i]
  IN  F[Len(args)]

\* <prefix>.<key>, followed by the parenthesized expressions when there are some
CallOf(key, args) ==
  IF args = << >> THEN Prefix \o << "." >> \o key
  ELSE Prefix \o << "." >> \o key \o << "(" >> \o CommaSeparated(args) \o << ")" >>

ContainsPlaceholders(value) == arbPlaceholderRegex(value, 1).found

\* the key order the contract gives for a document, a new key and its value:
\* the entries that were there, the key, its metadata when the value holds
\* placeholders, and the marker when it was there
ContractKeyOrder(doc, key, value) ==
  Keys(DetachMarker(doc)) \o << key >>
    \o (IF ContainsPlaceholders(value) THEN << MetaKey(key) >> ELSE << >>)
    \o (IF HasOwnProperty(doc, endOfFileMarkerKey) THEN << endOfFileMarkerKey >> ELSE << >>)

\* C19: when updateSourceArb is given a document that has neither the key nor
\* its metadata key and writes it, the written document's keys are the
\* pre-existing entries other than the marker in their original order, then
\* the key, then its metadata key exactly when the value contains
\* placeholders, then the marker if it was present.
C19_WrittenKeyOrder ==
  [][ /\ pc = "updateSourceArb"
      /\ calls'.updateSourceArb = "true"
      /\ ~HasOwnProperty(arbContent, userKey)
      /\ ~HasOwnProperty(arbContent, MetaKey(userKey))
      => Keys(files'[sourceLanguage].doc) = ContractKeyOrder(arbContent, userKey, info.arbText) ]_vars

(***************************************************************************)
(* C20: the codes findTargetLanguages returns.                             *)
(***************************************************************************)
\* the code a file of the folder stands for: none unless its name ends in
\* .arb; the code at the placeholder of the configured pattern, or else the
\* code-like suffix before the extension
CodeOf(file) ==
  IF ~EndsWith(file, ArbExtension) THEN Undefined
  ELSE IF SpecificMatch(file).def THEN SpecificMatch(file)
  ELSE GenericMatch(file)

\* the file of a listing counts for a target code
CountsFor(file, code) ==
  /\ file # FileName(sourceLanguage)
  /\ CodeOf(file) = Some(code)
  /\ code # sourceLanguage

\* where a code is first seen in the listing
FirstSeen(code) ==
  CHOOSE i \in 1..Len(listing) :
    /\ CountsFor(listing[i], code)
    /\ \A j \in 1..(i - 1) : ~CountsFor(listing[j], code)

\* the folder of the example: intl_en.arb, intl_es.arb, intl_fr-CA.arb
ExampleListing == << FileName(sourceLanguage), FileName(LangSeq[1]), FileName(LangFrCA) >>

\* C20: findTargetLanguages returns the codes of the .arb files of the folder
\* in the order in which they are first seen in the listing, each once, never
\* the source language nor a code taken from the source file; for
\* intl_en.arb, intl_es.arb, intl_fr-CA.arb it returns es, fr-CA.
C20_FirstSeenCodes ==
  pc = "found" =>
    /\ \A i, j \in 1..Len(targetLanguages) : targetLanguages[i] = targetLanguages[j] => i = j
    /\ \A i \in 1..Len(targetLanguages) :
         /\ targetLanguages[i] # sourceLanguage
         /\ \E n \in 1..Len(listing) : CountsFor(listing[n], targetLanguages[i])
    /\ \A n \in 1..Len(listing) : \A code \in { CodeOf(listing[n]).v } :
         CountsFor(listing[n], code) => ArrIncludes(targetLanguages, code)
    /\ \A i, j \in 1..Len(targetLanguages) :
         i < j => FirstSeen(targetLanguages[i]) < FirstSeen(targetLanguages[j])
    /\ listing = ExampleListing => targetLanguages = << LangSeq[1], LangFrCA >>

\* the folder of the example was scanned and gave its two codes
C20_Witness ==
  /\ pc = "found"
  /\ listing = ExampleListing
  /\ Len(targetLanguages) = 2

(***************************************************************************)
(* C21: an extraction without a selection or without a key.                *)
(***************************************************************************)
\* C21: as long as no key was entered (nothing was selected, or the key
\* prompt was cancelled: it accepts no empty key), no step creates or writes a
\* file or the folder, changes the editor, or starts a translation or the
\* post-extraction command.
C21_NoKeyNoEffects ==
  [][ userKey' = << >> =>
        /\ files' = files
        /\ folderExists' = folderExists
        /\ editor' = NoEditorChange
        /\ calls' = NoCalls ]_vars

\* the operation ended at its key prompt, a key suggested and none entered
C21_Witness ==
  /\ pc = "done"
  /\ userKey = << >>
  /\ suggestedKey # << >>

(***************************************************************************)
(* C22: the key 'Create new key' continues with.                           *)
(***************************************************************************)
\* the key is `<candidate>_n` for the smallest n >= 1 that the document has
\* no entry under
SmallestFreeSuffix(doc, candidate, key) ==
  \E n \in 1..(Len(doc) + 1) :
    /\ key = SuffixedKey(candidate, n)
    /\ ~HasOwnProperty(doc, key)
    /\ \A m \in 1..(n - 1) : HasOwnProperty(doc, SuffixedKey(candidate, m))

\* C22: when the user chooses 'Create new key' on a key collision, the suffix
\* loop ends and the key handleConflicts continues with is `<candidate>_n`
\* for the smallest n >= 1 such that the document has no entry under it.
C22_SmallestFreeSuffix ==
  [][ pc = "keyPrompt" /\ keyToUse' # keyToUse =>
        SmallestFreeSuffix(arbContent, userKey, keyToUse') ]_vars

(***************************************************************************)
(* C23: the value-collision prompt of handleConflicts.                     *)
(***************************************************************************)
\* a translatable entry: a string under a key that is neither a metadata key
\* nor the marker
IsTranslatableEntry(e) ==
  /\ e.v.t = "string"
  /\ e.k # endOfFileMarkerKey
  /\ ~StartsWith(e.k, << "@" >>)

\* the document has a translatable entry with the text under another key
TextUnderAnotherKey(doc, arbText, key) ==
  \E i \in 1..Len(doc) :
    /\ IsTranslatableEntry(doc[i])
    /\ doc[i].v.s = arbText
    /\ doc[i].k # key

\* step 2 of handleConflicts is taken: after step 1 found no key collision,
\* or after it renamed the key
StepTwoTaken ==
  /\ pc \in { "handleConflicts", "keyPrompt" }
  /\ pc' \in { "valuePrompt", "updateSourceArb" }

\* C23: step 2 shows the value-collision prompt if and only if the document
\* has a translatable entry (no metadata entry, not the marker) whose value is
\* the candidate text and whose key is not the current candidate key (the
\* renamed key when step 1 renamed it); a ReuseExisting result of step 2
\* names such an entry.
C23_ValuePromptIffCollision ==
  [][ /\ StepTwoTaken =>
           ( pc' = "valuePrompt" <=> TextUnderAnotherKey(arbContent, info.arbText, keyToUse') )
      /\ pc = "valuePrompt" /\ IsReuseExisting(conflictResult') =>
           \E i \in 1..Len(arbContent) :
             /\ IsTranslatableEntry(arbContent[i])
             /\ arbContent[i].k = conflictResult'.keyUsed.v
             /\ arbContent[i].v.s = info.arbText
             /\ arbContent[i].k # keyToUse ]_vars

(***************************************************************************)
(* C24: the place of the metadata entry.                                   *)
(***************************************************************************)
\* the metadata entry of a key comes right after the entry of the key
MetadataFollows(doc, key) ==
  \E i \in 1..(Len(doc) - 1) : doc[i].k = key /\ doc[i + 1].k = MetaKey(key)

\* the write of the entry of the text comes with a metadata entry
MetadataWritten == Len(detectAndConvertPlaceholders(info.arbText).arbPlaceholders) > 0

\* C24: in every document written by updateSourceArb or by
\* performTranslations, the metadata entry written for the key comes right
\* after the entry of the key, also when the key or its metadata key was in the
\* document before the write.
C24_MetadataFollowsKey ==
  MetadataWritten =>
    /\ calls.updateSourceArb = "true" => MetadataFollows(files[sourceLanguage].doc, userKey)
    /\ \A l \in TargetLangs : TargetUpdated(l) => MetadataFollows(files[l].doc, userKey)

(***************************************************************************)
(* C25: the add-a-language prompt.                                         *)
(***************************************************************************)
\* the provider was called for no language but those of a set
TranslatedOnly(langs) == \A l \in TargetLangs \ langs : calls.provider[l] = 0

C26_ReuseWritesNothing ==
  HandleConflictsCompleted /\ IsReuseExisting(conflictResult) =>
    /\ files = filesBefore
    /\ calls.sourceWrites = 0
    /\ calls.performTranslations = 0
    /\ \A l \in TargetLangs : calls.provider[l] = 0
    /\ calls.postCommand = 0
    /\ editor = [replaced |-> TRUE, text |-> conflictResult.replacement.v,
                 importEnsured |-> TRUE]

(***************************************************************************)
(* C27: a target whose translation call failed.                            *)
(***************************************************************************)
\* the provider was called for a target and gave no translation
TranslationFailed(l) == calls.provider[l] >= 1 /\ ~translated[l].def

\* C27: when the translation call fails for a target whose file existed
\* and parsed, the file of the target is what it was: neither the document
\* without its marker nor the pending entry is written.
C27_FailedTranslationLeavesFile ==
  \A l \in TargetLangs :
    TranslationFailed(l) /\ filesBefore[l].kind = "json" => files[l] = filesBefore[l]

\* the call failed for a target whose file had the marker, and the loop has
\* gone past it
C27_Witness ==
  \E l \in TargetLangs :
    /\ TranslationFailed(l)
    /\ HadMarker(l)
    /\ targetArbContent # filesBefore[l].doc
    /\ pc \in { "postCommand", "done" }

(***************************************************************************)
(* C28: the translated values that are written.                            *)
(***************************************************************************)
\* C28: every translated value performTranslations writes to a target
\* document is a non-empty string; a response without usable text (empty,
\* only whitespace, only a pair of quotes) is a failure of the target and
\* nothing is written for it.
C28_WrittenTranslationNotEmpty ==
  \A l \in TargetLangs :
    TargetUpdated(l) /\ userKey # endOfFileMarkerKey =>
      /\ Get(files[l].doc, userKey).t = "string"
      /\ Get(files[l].doc, userKey).s # << >>

(***************************************************************************)
(* C29: the arguments of the replacement and the names of the metadata.    *)
(***************************************************************************)
\* the arguments of the call runExtraction puts in the editor for a text
\* (extension.ts 583-585)
ReplacementArguments == info.originalPlaceholders

\* the names under "placeholders" in the metadata entry updateSourceArb
\* writes for the converted text (arb.ts 139-146); none without an entry
MetadataNames == PlaceholderObject(info2.arbPlaceholders)

\* C29: for every selected text, the replacement call has as many arguments
\* as the metadata entry written for the key has placeholder names, and no
\* argument and no metadata entry when the text has no placeholder.
C29_ArgumentsMatchMetadata ==
  tpc = "reconverted" => Len(ReplacementArguments) = Len(MetadataNames)

(***************************************************************************)
(* C30: what a target write changes.                                       *)
(***************************************************************************)
\* the entries of a document other than those of a key, its metadata key and
\* the marker, in their order
OtherEntries(doc, key) ==
  SelectSeq(doc, LAMBDA e : e.k \notin { key, MetaKey(key), endOfFileMarkerKey })

\* C30: a successful target write for a key changes only the entries of the
\* key and of its metadata key: every other entry of the target's document
\* keeps its value and its place among the others, and the marker, if the
\* document had it, is its last key.
C30_OnlyKeyEntriesChange ==
  \A l \in TargetLangs :
    TargetUpdated(l) /\ filesBefore[l].kind = "json" =>
      /\ OtherEntries(files[l].doc, userKey) = OtherEntries(filesBefore[l].doc, userKey)
      /\ HadMarker(l) =>
           MarkerIsLast(files[l].doc, Get(filesBefore[l].doc, endOfFileMarkerKey))

====
